---- MODULE Spec2Model ----
(***************************************************************************)
(* Model of the students CRUD backend (src/duckdb_demo.go).                *)
(*                                                                         *)
(* The state is the committed contents of the students table, the write    *)
(* sets of the open transactions, and, for each request handler, the       *)
(* locals of the handler function and its position in it.  Every database  *)
(* round trip of a handler is one step, so that concurrent requests        *)
(* interleave exactly between the statements they issue.                   *)
(*                                                                         *)
(* Text is a sequence of one-character strings, so that TrimSpace, Split,  *)
(* Atoi, ParseFloat and the quote doubling of the update statement are     *)
(* computed and not assumed.  A gpa is an integer number of thousandths.   *)
(***************************************************************************)
EXTENDS Integers, Sequences, FiniteSets, TLC

\* ------------------------------------------------------------------ bounds

\* Largest id the model lets MAX(id)+1 reach.
MaxId == 3
\* Longest batch of a bulk insert.
MaxBatch == 2

\* The request handlers (one goroutine per request in flight).
Procs == {1, 2}

\* ------------------------------------------------------------------- text

Digits == <<"0", "1", "2", "3", "4", "5", "6", "7", "8", "9">>

IsDigit(c) == \E d \in 1..10 : Digits[d] = c

DigitVal(c) == (CHOOSE d \in 1..10 : Digits[d] = c) - 1

\* strings.TrimSpace
RECURSIVE TrimLeft(_)
TrimLeft(s) == IF s # <<>> /\ Head(s) = " " THEN TrimLeft(Tail(s)) ELSE s

RECURSIVE TrimRight(_)
TrimRight(s) ==
    IF s # <<>> /\ s[Len(s)] = " " THEN TrimRight(SubSeq(s, 1, Len(s) - 1)) ELSE s

TrimSpace(s) == TrimRight(TrimLeft(s))

\* The value of a string of digits, read left to right.
RECURSIVE DigitsValue(_, _)
DigitsValue(s, acc) ==
    IF s = <<>> THEN acc ELSE DigitsValue(Tail(s), 10 * acc + DigitVal(Head(s)))

AllDigits(s) == s # <<>> /\ \A i \in 1..Len(s) : IsDigit(s[i])

\* strconv.Atoi: [ok, val]; val is 0 on a syntax error.
Atoi(s) ==
    LET neg  == s # <<>> /\ Head(s) = "-"
        body == IF s # <<>> /\ Head(s) \in {"-", "+"} THEN Tail(s) ELSE s
    IN  IF AllDigits(body)
        THEN [ok |-> TRUE, val |-> IF neg THEN 0 - DigitsValue(body, 0) ELSE DigitsValue(body, 0)]
        ELSE [ok |-> FALSE, val |-> 0]

\* Position of the first c in s, 0 when there is none.
IndexOf(s, c) ==
    IF \E i \in 1..Len(s) : s[i] = c
    THEN CHOOSE i \in 1..Len(s) : s[i] = c /\ \A j \in 1..(i - 1) : s[j] # c
    ELSE 0

\* strconv.ParseFloat on a decimal numeral, in thousandths; 0 on a syntax error.
ParseFloat(s) ==
    LET dot  == IndexOf(s, ".")
        ip   == IF dot = 0 THEN s ELSE SubSeq(s, 1, dot - 1)
        fp   == IF dot = 0 THEN <<>> ELSE SubSeq(s, dot + 1, Len(s))
        fp3  == SubSeq(fp \o <<"0", "0", "0">>, 1, 3)
        good == /\ s # <<>>
                /\ ip # <<>> \/ fp # <<>>
                /\ \A i \in 1..Len(ip) : IsDigit(ip[i])
                /\ \A i \in 1..Len(fp) : IsDigit(fp[i])
                /\ Len(fp) <= 3
    IN  IF good
        THEN [ok |-> TRUE, val |-> 1000 * DigitsValue(ip, 0) + DigitsValue(fp3, 0)]
        ELSE [ok |-> FALSE, val |-> 0]

\* strings.Split(s, ",")
RECURSIVE Split(_)
Split(s) ==
    LET i == IndexOf(s, ",")
    IN  IF i = 0 THEN <<s>>
        ELSE <<SubSeq(s, 1, i - 1)>> \o Split(SubSeq(s, i + 1, Len(s)))

\* strings.ReplaceAll(s, "'", "''")
RECURSIVE ReplaceAllQuote(_)
ReplaceAllQuote(s) ==
    IF s = <<>> THEN <<>>
    ELSE IF Head(s) = "'" THEN <<"'", "'">> \o ReplaceAllQuote(Tail(s))
    ELSE <<Head(s)>> \o ReplaceAllQuote(Tail(s))

\* The text the SQL engine reads between the quotes of '...': a doubled quote
\* stands for one quote, a single quote ends the literal.
RECURSIVE SqlLiteral(_)
SqlLiteral(s) ==
    IF s = <<>> THEN <<>>
    ELSE IF Head(s) = "'"
         THEN IF Len(s) >= 2 /\ s[2] = "'"
              THEN <<"'">> \o SqlLiteral(Tail(Tail(s)))
              ELSE <<>>
         ELSE <<Head(s)>> \o SqlLiteral(Tail(s))

\* fmt's %.2f on a gpa in thousandths: the nearest hundredth.
Sprintf2f(g) == ((g + 5) \div 10) * 10

NoOrganization ==
    <<"N", "o", " ", "O", "r", "g", "a", "n", "i", "z", "a", "t", "i", "o", "n">>

\* ------------------------------------------------------------- the inputs

Body(n, a, g, o) == [name |-> n, age |-> a, gpa |-> g, org |-> o]

\* Request bodies that pass validation: between them the four boundary
\* values, text to trim, a quote, and the empty organization.
ValidBodies ==
    { Body(<<" ", "B">>, 0, 4000, <<>>),
      Body(<<"O", "'", "N">>, 120, 0, <<"Y", " ">>) }

\* Request bodies just outside each range.
InvalidBodies ==
    { Body(<<"A">>, 0 - 1, 0, <<"X">>),
      Body(<<"A">>, 121, 0, <<"X">>),
      Body(<<"A">>, 0, 4010, <<"X">>),
      Body(<<"A">>, 0, 0 - 10, <<"X">>) }

Bodies == ValidBodies \cup InvalidBodies

\* The bodies of PUT: one whose gpa has three decimals, one out of range.
UpdateBodies ==
    { Body(<<"O", "'", "N">>, 20, 3456, <<"Y", " ">>),
      Body(<<"A">>, 121, 0, <<"X">>) }

\* The one body the concurrent specifications insert.
OneBody == { Body(<<" ", "B">>, 0, 4000, <<>>) }

\* The records of a bulk request, in order: a batch is a prefix of this
\* alternation of a record in range and a record out of range.
BulkRecord(k) ==
    IF k % 2 = 1 THEN Body(<<" ", "B">>, 0, 4000, <<>>)
    ELSE Body(<<"A">>, 121, 0, <<"X">>)

Batches == {[k \in 1..n |-> BulkRecord(k)] : n \in 0..MaxBatch}

\* The {id} path segment of PUT and DELETE.
IdStrs == {<<Digits[i + 1]>> : i \in 1..MaxId} \cup {<<"x">>}

Query(amin, amax, gmin, gmax, orgs) ==
    [ageMin |-> amin, ageMax |-> amax, gpaMin |-> gmin, gpaMax |-> gmax,
     organizations |-> orgs]

\* The query strings of GET /students/filter.
Queries ==
    { Query(<<>>, <<>>, <<>>, <<>>, <<>>),
      Query(<<"2", "0">>, <<"1", "2", "0">>, <<>>, <<>>, <<>>),
      Query(<<"2", "0">>, <<>>, <<>>, <<>>, <<>>),
      Query(<<"x">>, <<"2", "0">>, <<>>, <<>>, <<>>),
      Query(<<>>, <<>>, <<"0">>, <<"3", ".", "4", "6">>, <<>>),
      Query(<<>>, <<>>, <<>>, <<"4">>, <<>>),
      Query(<<>>, <<>>, <<>>, <<>>, <<"Y", ",", "X">>),
      Query(<<"0">>, <<"2", "0">>, <<"3", ".", "4", "6">>, <<"4">>, <<"Y">>) }

\* -------------------------------------------------------------- the state

VARIABLES
    table,      \* the committed rows of students
    pending,    \* pending[p]: rows inserted by p's open transaction
    lock,       \* lock[p]: id of the row p's open transaction has updated, or 0
    req,        \* req[p]: the handler's locals, position and response
    assigned    \* history: the largest id given to a created student so far

vars == <<table, pending, lock, req, assigned>>

NoBody == Body(<<>>, 0, 0, <<>>)
NoQuery == Query(<<>>, <<>>, <<>>, <<>>, <<>>)

\* A handler that has not started.
Fresh ==
    [op |-> "none", pc |-> "idle", s |-> NoBody, id |-> 0, students |-> <<>>,
     newID |-> 0, nextID |-> 0, i |-> 0, rowsAffected |-> 0,
     status |-> 0, msg |-> "", respId |-> 0, count |-> 0,
     query |-> NoQuery, result |-> {}]

Row(id, b) == [id |-> id, name |-> b.name, age |-> b.age, gpa |-> b.gpa, org |-> b.org]

Init ==
    /\ table = {}
    /\ pending = [p \in Procs |-> {}]
    /\ lock = [p \in Procs |-> 0]
    /\ req = [p \in Procs |-> Fresh]
    /\ assigned = 0

\* The handler is free to take the next request.
CanStart(p) == req[p].pc \in {"idle", "done"}

\* --------------------------------------------------------- the database

\* SELECT COALESCE(MAX(id), 0) FROM students
MaxIdOf(t) ==
    IF t = {} THEN 0 ELSE CHOOSE m \in {r.id : r \in t} : \A r \in t : r.id <= m

\* A table declared without the key.
NoPrimaryKey(id, rows) == FALSE

\* id BIGINT PRIMARY KEY: a row with this id may not be added to rows.
PrimaryKeyViolated(id, rows) == \E r \in rows : r.id = id

\* Another open transaction holds an uncommitted row with this id.
Uncommitted(p, id) == \E q \in Procs \ {p} : \E r \in pending[q] : r.id = id

\* Another open transaction has updated the row with this id.
Locked(p, id) == \E q \in Procs \ {p} : lock[q] = id /\ id # 0

\* SELECT COUNT(*) FROM students WHERE id=?
CountById(t, id) == Cardinality({r \in t : r.id = id})

\* A rollback that leaves the transaction's rows behind.
RolledBackKeepsRows(t, rows) == t \cup rows

\* The committed table once a transaction that holds the uncommitted rows
\* `rows` is rolled back.
RolledBack(t, rows) == t

\* tx.Rollback(): the transaction's writes are discarded.
Rollback(p) ==
    /\ table' = RolledBack(table, pending[p])
    /\ pending' = [pending EXCEPT ![p] = {}]
    /\ lock' = [lock EXCEPT ![p] = 0]

\* ----------------------------------------------------------- validation

\* The upper bound taken exclusive.
ValidAgeExclusive(age) == ~(age < 0 \/ age >= 120)

ValidAge(age) == ~(age < 0 \/ age > 120)

ValidGPA(gpa) == ~(gpa < 0 \/ gpa > 4000)

\* Trimmed strings and the default organization.
Normalize(b) ==
    LET org == TrimSpace(b.org)
    IN  [b EXCEPT !.name = TrimSpace(b.name),
                  !.org = IF org = <<>> THEN NoOrganization ELSE org]

\* The handler writes its response and returns.
Respond(p, code, fields) ==
    req' = [req EXCEPT ![p] = [fields EXCEPT !.pc = "done", !.status = code]]

\* ------------------------------------------------ POST /students (insert)

\* The body does not decode.
InsertStudentBadJSON(p) ==
    /\ CanStart(p)
    /\ Respond(p, 400, [Fresh EXCEPT !.op = "insert", !.msg = "Invalid JSON"])
    /\ UNCHANGED <<table, pending, lock, assigned>>

\* The body fails the age or the gpa check.
InsertStudentInvalid(p, b) ==
    /\ CanStart(p)
    /\ ~(ValidAge(b.age) /\ ValidGPA(b.gpa))
    /\ Respond(p, 400, [Fresh EXCEPT !.op = "insert",
                                     !.s = [b EXCEPT !.name = TrimSpace(b.name),
                                                     !.org = TrimSpace(b.org)],
                                     !.msg = IF ~ValidAge(b.age) THEN "Invalid age"
                                             ELSE "Invalid GPA"])
    /\ UNCHANGED <<table, pending, lock, assigned>>

\* The next id taken from the number of rows.
NextIdByCount(t) == Cardinality(t) + 1

\* SELECT COALESCE(MAX(id), 0) + 1 FROM students
NextIdQuery(t) == MaxIdOf(t) + 1

\* The body is valid: the handler reads the next id.
InsertStudentReadMax(p, b) ==
    /\ CanStart(p)
    /\ ValidAge(b.age) /\ ValidGPA(b.gpa)
    /\ NextIdQuery(table) <= MaxId
    /\ req' = [req EXCEPT ![p] = [Fresh EXCEPT !.op = "insert", !.pc = "ins_exec",
                                               !.s = Normalize(b),
                                               !.newID = NextIdQuery(table)]]
    /\ UNCHANGED <<table, pending, lock, assigned>>

\* INSERT INTO students (id, ...) VALUES (newID, ...) succeeds.
InsertStudentExec(p) ==
    /\ req[p].pc = "ins_exec"
    /\ ~PrimaryKeyViolated(req[p].newID, table)
    /\ table' = table \cup {Row(req[p].newID, req[p].s)}
    /\ assigned' = IF req[p].newID > assigned THEN req[p].newID ELSE assigned
    /\ Respond(p, 201, [Fresh EXCEPT !.op = "insert", !.s = req[p].s,
                                     !.respId = req[p].newID])
    /\ UNCHANGED <<pending, lock>>

\* The INSERT fails: the id is taken, or an open transaction holds it.
InsertStudentExecFail(p) ==
    /\ req[p].pc = "ins_exec"
    /\ PrimaryKeyViolated(req[p].newID, table) \/ Uncommitted(p, req[p].newID)
    /\ Respond(p, 500, [Fresh EXCEPT !.op = "insert", !.newID = req[p].newID])
    /\ UNCHANGED <<table, pending, lock, assigned>>

\* --------------------------------------------- PUT /students/{id} (update)

\* The id is no integer, the body does not decode, or validation fails.
UpdateStudentBadRequest(p, idStr, b, jsonOk) ==
    /\ CanStart(p)
    /\ ~Atoi(idStr).ok \/ ~jsonOk \/ ~(ValidAge(b.age) /\ ValidGPA(b.gpa))
    /\ Respond(p, 400,
          IF ~Atoi(idStr).ok
          THEN [Fresh EXCEPT !.op = "update", !.msg = "Invalid student ID"]
          ELSE IF ~jsonOk
          THEN [Fresh EXCEPT !.op = "update", !.id = Atoi(idStr).val,
                             !.msg = "Invalid JSON body"]
          ELSE [Fresh EXCEPT !.op = "update", !.id = Atoi(idStr).val,
                             !.s = [b EXCEPT !.name = TrimSpace(b.name),
                                             !.org = TrimSpace(b.org)],
                             !.msg = IF ~ValidAge(b.age) THEN "Age out of range"
                                     ELSE "GPA out of range"])
    /\ UNCHANGED <<table, pending, lock, assigned>>

\* An existence check that never reports a missing row.
StudentNotFoundNever(t, id) == CountById(t, id) < 0

\* exists == 0
StudentNotFound(t, id) == CountById(t, id) = 0

\* The existence check finds no row.
UpdateStudentNotFound(p, idStr, b) ==
    /\ CanStart(p)
    /\ Atoi(idStr).ok /\ ValidAge(b.age) /\ ValidGPA(b.gpa)
    /\ StudentNotFound(table, Atoi(idStr).val)
    /\ Respond(p, 404, [Fresh EXCEPT !.op = "update", !.id = Atoi(idStr).val,
                                     !.s = Normalize(b),
                                     !.msg = "Student not found"])
    /\ UNCHANGED <<table, pending, lock, assigned>>

\* The existence check finds the row: the handler begins its transaction.
UpdateStudentFound(p, idStr, b) ==
    /\ CanStart(p)
    /\ Atoi(idStr).ok /\ ValidAge(b.age) /\ ValidGPA(b.gpa)
    /\ ~StudentNotFound(table, Atoi(idStr).val)
    /\ req' = [req EXCEPT ![p] = [Fresh EXCEPT !.op = "update", !.pc = "upd_exec",
                                               !.id = Atoi(idStr).val,
                                               !.s = Normalize(b)]]
    /\ UNCHANGED <<table, pending, lock, assigned>>

\* The row the interpolated UPDATE statement writes over row r.
UpdatedRow(r, s) ==
    [r EXCEPT !.name = SqlLiteral(ReplaceAllQuote(s.name) \o <<"'">>),
              !.age = s.age,
              !.gpa = Sprintf2f(s.gpa),
              !.org = SqlLiteral(ReplaceAllQuote(s.org) \o <<"'">>)]

\* tx.Exec(query) succeeds, on however many rows the id matches.
UpdateStudentExec(p) ==
    /\ req[p].pc = "upd_exec"
    /\ ~Locked(p, req[p].id)
    /\ req' = [req EXCEPT ![p] = [@ EXCEPT !.pc = "upd_commit",
                                           !.rowsAffected = CountById(table, req[p].id)]]
    /\ lock' = [lock EXCEPT ![p] = IF CountById(table, req[p].id) > 0 THEN req[p].id ELSE 0]
    /\ UNCHANGED <<table, pending, assigned>>

\* tx.Exec(query) fails: another open transaction has written the row.
UpdateStudentExecFail(p) ==
    /\ req[p].pc = "upd_exec"
    /\ Locked(p, req[p].id)
    /\ Rollback(p)
    /\ Respond(p, 500, [Fresh EXCEPT !.op = "update", !.id = req[p].id])
    /\ UNCHANGED assigned

\* tx.Commit(): the update becomes visible; the response is 200 whatever
\* RowsAffected says.
UpdateStudentCommit(p) ==
    /\ req[p].pc = "upd_commit"
    /\ table' = {IF r.id = lock[p] THEN UpdatedRow(r, req[p].s) ELSE r : r \in table}
    /\ lock' = [lock EXCEPT ![p] = 0]
    /\ Respond(p, 200, [Fresh EXCEPT !.op = "update", !.id = req[p].id,
                                     !.rowsAffected = req[p].rowsAffected])
    /\ UNCHANGED <<pending, assigned>>

\* ------------------------------------------ DELETE /students/{id} (delete)

\* DELETE FROM students WHERE id=? succeeds, on however many rows match.
DeleteStudent(p, idStr) ==
    /\ CanStart(p)
    /\ Atoi(idStr).ok
    /\ ~Locked(p, Atoi(idStr).val)
    /\ table' = {r \in table : r.id # Atoi(idStr).val}
    /\ Respond(p, 200, [Fresh EXCEPT !.op = "delete"])
    /\ UNCHANGED <<pending, lock, assigned>>

\* The DELETE fails: the id does not convert to BIGINT, or an open
\* transaction has written the row.
DeleteStudentFail(p, idStr) ==
    /\ CanStart(p)
    /\ ~Atoi(idStr).ok \/ Locked(p, Atoi(idStr).val)
    /\ Respond(p, 500, [Fresh EXCEPT !.op = "delete"])
    /\ UNCHANGED <<table, pending, lock, assigned>>

\* ------------------------------------- POST /students/bulk (bulk insert)

\* The body does not decode.
BulkInsertBadJSON(p) ==
    /\ CanStart(p)
    /\ Respond(p, 400, [Fresh EXCEPT !.op = "bulk"])
    /\ UNCHANGED <<table, pending, lock, assigned>>

\* The starting id without the increment.
BulkStartIdAtMax(t) == MaxIdOf(t)

\* SELECT COALESCE(MAX(id), 0) FROM students, then nextID := currentMaxID + 1
BulkStartId(t) == MaxIdOf(t) + 1

\* The handler reads the starting id; the transaction begins and the
\* statement is prepared.
BulkInsertReadMax(p, batch) ==
    /\ CanStart(p)
    /\ BulkStartId(table) + Len(batch) <= MaxId + 1
    /\ req' = [req EXCEPT ![p] = [Fresh EXCEPT !.op = "bulk", !.pc = "bulk_exec",
                                               !.students = batch,
                                               !.nextID = BulkStartId(table),
                                               !.i = 1]]
    /\ UNCHANGED <<table, pending, lock, assigned>>

\* The row the loop writes for a decoded student: the fields as they came.
BulkRow(id, s) == Row(id, s)

\* stmt.Exec(nextID, ...) succeeds for the i-th student; nextID++.
BulkInsertExec(p) ==
    /\ req[p].pc = "bulk_exec"
    /\ req[p].i <= Len(req[p].students)
    /\ ~PrimaryKeyViolated(req[p].nextID, table \cup pending[p])
    /\ pending' = [pending EXCEPT
                     ![p] = @ \cup {BulkRow(req[p].nextID, req[p].students[req[p].i])}]
    /\ req' = [req EXCEPT ![p] = [@ EXCEPT !.nextID = @ + 1, !.i = @ + 1]]
    /\ UNCHANGED <<table, lock, assigned>>

\* stmt.Exec fails for the i-th student: rollback and 500.
BulkInsertExecFail(p) ==
    /\ req[p].pc = "bulk_exec"
    /\ req[p].i <= Len(req[p].students)
    /\ \/ PrimaryKeyViolated(req[p].nextID, table \cup pending[p])
       \/ Uncommitted(p, req[p].nextID)
    /\ Rollback(p)
    /\ Respond(p, 500, [Fresh EXCEPT !.op = "bulk", !.i = req[p].i])
    /\ UNCHANGED assigned

\* tx.Commit() succeeds: the rows of the batch become visible together.
BulkInsertCommit(p) ==
    /\ req[p].pc = "bulk_exec"
    /\ req[p].i > Len(req[p].students)
    /\ \A r \in pending[p] : ~PrimaryKeyViolated(r.id, table)
    /\ table' = table \cup pending[p]
    /\ pending' = [pending EXCEPT ![p] = {}]
    /\ assigned' = IF MaxIdOf(pending[p]) > assigned THEN MaxIdOf(pending[p]) ELSE assigned
    /\ Respond(p, 201, [Fresh EXCEPT !.op = "bulk", !.count = Len(req[p].students)])
    /\ UNCHANGED lock

\* tx.Commit() fails: an id of the batch was committed by another request
\* in the meantime; the engine aborts the transaction.
BulkInsertCommitFail(p) ==
    /\ req[p].pc = "bulk_exec"
    /\ req[p].i > Len(req[p].students)
    /\ \E r \in pending[p] : PrimaryKeyViolated(r.id, table)
    /\ pending' = [pending EXCEPT ![p] = {}]
    /\ Respond(p, 500, [Fresh EXCEPT !.op = "bulk", !.i = req[p].i])
    /\ UNCHANGED <<table, lock, assigned>>

\* ------------------------------------------- GET /students/filter (filter)

Elements(seq) == {seq[i] : i \in 1..Len(seq)}

\* A range applied as soon as either of its bounds is given.
FilterWhereEitherBound(q, r) ==
    /\ (q.ageMin # <<>> \/ q.ageMax # <<>>)
          => (Atoi(q.ageMin).val <= r.age /\ r.age <= Atoi(q.ageMax).val)
    /\ (q.gpaMin # <<>> \/ q.gpaMax # <<>>)
          => (ParseFloat(q.gpaMin).val <= r.gpa /\ r.gpa <= ParseFloat(q.gpaMax).val)
    /\ (q.organizations # <<>>)
          => r.org \in Elements(Split(q.organizations))

\* The WHERE clause filterStudents builds for query q, on row r.
FilterWhere(q, r) ==
    /\ (q.ageMin # <<>> /\ q.ageMax # <<>>)
          => (Atoi(q.ageMin).val <= r.age /\ r.age <= Atoi(q.ageMax).val)
    /\ (q.gpaMin # <<>> /\ q.gpaMax # <<>>)
          => (ParseFloat(q.gpaMin).val <= r.gpa /\ r.gpa <= ParseFloat(q.gpaMax).val)
    /\ (q.organizations # <<>>)
          => r.org \in Elements(Split(q.organizations))

FilterStudents(p, q) ==
    /\ CanStart(p)
    /\ Respond(p, 200, [Fresh EXCEPT !.op = "filter", !.query = q,
                                     !.result = {r \in table : FilterWhere(q, r)}])
    /\ UNCHANGED <<table, pending, lock, assigned>>

\* ---------------------------------------------------- the specifications

\* One handler serves one request after another.  With no second request in
\* flight no statement meets a constraint violation or a write conflict.
Next ==
    \E p \in {1} :
        \/ InsertStudentBadJSON(p)
        \/ \E b \in Bodies : InsertStudentInvalid(p, b)
        \/ \E b \in Bodies : InsertStudentReadMax(p, b)
        \/ InsertStudentExec(p)
        \/ \E idStr \in IdStrs, b \in UpdateBodies, jsonOk \in BOOLEAN :
              UpdateStudentBadRequest(p, idStr, b, jsonOk)
        \/ \E idStr \in IdStrs, b \in UpdateBodies : UpdateStudentNotFound(p, idStr, b)
        \/ \E idStr \in IdStrs, b \in UpdateBodies : UpdateStudentFound(p, idStr, b)
        \/ UpdateStudentExec(p)
        \/ UpdateStudentCommit(p)
        \/ \E idStr \in IdStrs : DeleteStudent(p, idStr)
        \/ \E idStr \in IdStrs : DeleteStudentFail(p, idStr)
        \/ BulkInsertBadJSON(p)
        \/ \E batch \in Batches : BulkInsertReadMax(p, batch)
        \/ BulkInsertExec(p)
        \/ BulkInsertCommit(p)
        \/ \E q \in Queries : FilterStudents(p, q)

Spec == Init /\ [][Next]_vars

\* Concurrent creation: two handlers insert, bulk-insert and delete at once.
NextCreate ==
    \E p \in Procs :
        \/ \E b \in OneBody : InsertStudentReadMax(p, b)
        \/ InsertStudentExec(p)
        \/ InsertStudentExecFail(p)
        \/ \E batch \in Batches : BulkInsertReadMax(p, batch)
        \/ BulkInsertExec(p)
        \/ BulkInsertExecFail(p)
        \/ BulkInsertCommit(p)
        \/ BulkInsertCommitFail(p)
        \/ \E idStr \in IdStrs : DeleteStudent(p, idStr)

SpecCreate == Init /\ [][NextCreate]_vars

\* Concurrent update and delete: two handlers insert, update and delete at
\* once.
NextUpdate ==
    \E p \in Procs :
        \/ \E b \in OneBody : InsertStudentReadMax(p, b)
        \/ InsertStudentExec(p)
        \/ InsertStudentExecFail(p)
        \/ \E idStr \in IdStrs, b \in UpdateBodies, jsonOk \in BOOLEAN :
              UpdateStudentBadRequest(p, idStr, b, jsonOk)
        \/ \E idStr \in IdStrs, b \in UpdateBodies : UpdateStudentNotFound(p, idStr, b)
        \/ \E idStr \in IdStrs, b \in UpdateBodies : UpdateStudentFound(p, idStr, b)
        \/ UpdateStudentExec(p)
        \/ UpdateStudentExecFail(p)
        \/ UpdateStudentCommit(p)
        \/ \E idStr \in IdStrs : DeleteStudent(p, idStr)
        \/ \E idStr \in IdStrs : DeleteStudentFail(p, idStr)

SpecUpdate == Init /\ [][NextUpdate]_vars

\* ------------------------------------------------------------- the claims

\* id is 1 + the largest id of t, or 1 when t is empty.
IsNextId(id, t) ==
    /\ \A r \in t : r.id < id
    /\ id = 1 \/ \E r \in t : r.id = id - 1

\* The largest id of t, 0 when t is empty.
LargestId(t) == CHOOSE m \in 0..(MaxId + 1) : IsNextId(m + 1, t)

\* A record whose age or gpa is outside [0,120] or [0.0,4.0].
OutOfRange(b) == b.age < 0 \/ b.age > 120 \/ b.gpa < 0 \/ b.gpa > 4000

\* p's handler moved in this step.
Moved(p) == req'[p] # req[p]

C1_Step(p) ==
    (req[p].pc = "ins_exec" /\ Moved(p)) =>
        /\ ~OutOfRange(req[p].s)
        /\ req'[p].pc = "done" /\ req'[p].status = 201
        /\ IsNextId(req'[p].respId, table)
        /\ table' = table \cup {Row(req'[p].respId, req[p].s)}
        /\ Cardinality(table') = Cardinality(table) + 1

\* C1: a valid single insert that runs with no other request interleaved ends
\* in 201 with the id 1 + the largest id of the table just before the insert
\* (1 for the empty table); the row with that id is the one row added, and
\* the rows that were there are unchanged.
C1_InsertAssignsNextId == [][\A p \in Procs : C1_Step(p)]_vars

\* An insert answered 201 with id 3 into a table that held only id 2.
C1_Witness ==
    \E p \in Procs :
        /\ req[p].op = "insert" /\ req[p].pc = "done" /\ req[p].status = 201
        /\ req[p].respId = 3
        /\ {r.id : r \in table} = {2, 3}

UniqueIds == \A r1, r2 \in table : r1.id = r2.id => r1 = r2

C2_Step(p) ==
    /\ ( /\ req[p].pc = "ins_exec" /\ Moved(p)
         /\ \E r \in table : r.id = req[p].newID )
       => (req'[p].pc = "done" /\ req'[p].status = 500 /\ table' = table)
    /\ ( /\ req[p].pc = "bulk_exec" /\ Moved(p)
         /\ req[p].i <= Len(req[p].students)
         /\ \E r \in table : r.id = req[p].nextID )
       => (req'[p].pc = "done" /\ req'[p].status = 500 /\ table' = table)

\* C2: under every interleaving of concurrent inserts and bulk inserts no two
\* rows of the table have the same id; a request whose computed id is already
\* in the table when it writes ends in 500 and adds no row.
C2_UniqueIds == [][UniqueIds' /\ \A p \in Procs : C2_Step(p)]_vars

\* An insert lost the race for its id: it ended in 500 and the id is in the
\* table.
C2_Witness ==
    \E p \in Procs :
        /\ req[p].op = "insert" /\ req[p].pc = "done" /\ req[p].status = 500
        /\ \E r \in table : r.id = req[p].newID

C3_Step(p) ==
    /\ ( /\ CanStart(p) /\ Moved(p)
         /\ req'[p].op = "insert" /\ req'[p].msg # "Invalid JSON" )
       => IF OutOfRange(req'[p].s)
          THEN /\ req'[p].pc = "done" /\ req'[p].status = 400
               /\ req'[p].newID = 0
               /\ table' = table
          ELSE req'[p].pc = "ins_exec"
    /\ (req[p].pc = "ins_exec" /\ Moved(p))
       => (~OutOfRange(req[p].s) /\ req'[p].pc = "done" /\ req'[p].status = 201)

\* C3: a single insert with age < 0, age > 120, gpa < 0.0 or gpa > 4.0 ends in
\* 400 without reading MAX(id) and leaves the table unchanged; every other
\* decoded insert, the boundary values 0, 120, 0.0 and 4.0 included, goes on
\* to its insert and ends in 201.
C3_InsertValidation == [][\A p \in Procs : C3_Step(p)]_vars

\* An insert was rejected for its gpa while the table holds the two inserted
\* boundary rows (age 0 with gpa 4.0, age 120 with gpa 0.0).
C3_Witness ==
    \E p \in Procs :
        /\ req[p].op = "insert" /\ req[p].status = 400 /\ req[p].msg = "Invalid GPA"
        /\ \E r \in table : r.name = <<"B">> /\ r.age = 0 /\ r.gpa = 4000
        /\ \E r \in table : r.name = <<"O", "'", "N">> /\ r.age = 120 /\ r.gpa = 0

\* C4: every row stored in the table has age in [0,120] and gpa in
\* [0.0,4.0], whichever of insert, update, bulk insert and delete ran.
C4_RowsInRange == \A r \in table : ~OutOfRange(r)

C5_Step(p) ==
    ( /\ CanStart(p) /\ Moved(p)
      /\ req'[p].op = "update"
      /\ req'[p].msg \notin {"Invalid student ID", "Invalid JSON body"}
      /\ ~OutOfRange(req'[p].s)
      /\ ~\E r \in table : r.id = req'[p].id )
    => /\ req'[p].pc = "done" /\ req'[p].status = 404
       /\ table' = table
       /\ pending' = pending /\ lock' = lock

\* C5: an update with a valid body whose id matches no row when the existence
\* check runs ends in 404; no transaction is started and the table is
\* unchanged.
C5_UpdateMissingIs404 == [][\A p \in Procs : C5_Step(p)]_vars

\* An update ended in 404 on a table that holds other rows.
C5_Witness ==
    \E p \in Procs :
        /\ req[p].op = "update" /\ req[p].pc = "done" /\ req[p].status = 404
        /\ table # {}
        /\ ~\E r \in table : r.id = req[p].id

C6_Step(p) ==
    ( /\ req[p].pc = "bulk_exec" /\ Moved(p)
      /\ req[p].i > Len(req[p].students) )
    => LET n == Len(req[p].students)
           m == LargestId(table)
       IN  /\ req'[p].pc = "done" /\ req'[p].status = 201 /\ req'[p].count = n
           /\ table' = table \cup {Row(m + k, req[p].students[k]) : k \in 1..n}
           /\ Cardinality(table') = Cardinality(table) + n

\* C6: a bulk insert of n students that runs with no other request
\* interleaved, on a table whose largest id is m, ends in 201 with count n and
\* adds exactly the n rows in which the k-th record has id m+k; the rows that
\* were there are unchanged.
C6_BulkAssignsIdsInOrder == [][\A p \in Procs : C6_Step(p)]_vars

\* A bulk insert of two records into a table whose largest id was 1 ended in
\* 201: the first record has id 2 and the second id 3.
C6_Witness ==
    \E p \in Procs :
        /\ req[p].op = "bulk" /\ req[p].status = 201 /\ req[p].count = 2
        /\ \E r \in table : r.id = 1
        /\ Row(2, BulkRecord(1)) \in table
        /\ Row(3, BulkRecord(2)) \in table

C7_Step(p) ==
    (req[p].pc = "bulk_exec" /\ Moved(p)) =>
        LET n     == Len(req[p].students)
            first == req[p].nextID - n
        IN  IF req'[p].status = 201
            THEN /\ table' = table
                             \cup {Row(first + k - 1, req[p].students[k]) : k \in 1..n}
                 /\ Cardinality(table') = Cardinality(table) + n
            ELSE /\ table' = table
                 /\ req'[p].pc = "done" => req'[p].status = 500

\* C7: a bulk insert is all or nothing: the table changes in one step only,
\* the commit, which adds all rows of the batch; a statement or commit that
\* fails ends the request in 500 with the table as it was, so that no row of
\* the batch is ever in the table without the others.
C7_BulkAllOrNothing == [][\A p \in Procs : C7_Step(p)]_vars

\* A bulk insert failed on its second row, after its first row was written
\* inside the transaction.
C7_Witness ==
    \E p \in Procs :
        req[p].op = "bulk" /\ req[p].pc = "done" /\ req[p].status = 500 /\ req[p].i = 2

\* What each numeric query string of Queries stands for: the number it
\* spells, 0 when it spells none.
ExpectedInt(str) ==
    CASE str = <<"2", "0">> -> 20
      [] str = <<"1", "2", "0">> -> 120
      [] OTHER -> 0

ExpectedGpa(str) ==
    CASE str = <<"3", ".", "4", "6">> -> 3460
      [] str = <<"4">> -> 4000
      [] OTHER -> 0

\* The names each organizations string of Queries lists.
ExpectedOrgs(str) ==
    CASE str = <<"Y", ",", "X">> -> {<<"Y">>, <<"X">>}
      [] str = <<"Y">> -> {<<"Y">>}
      [] OTHER -> {}

C8_Satisfies(q, r) ==
    /\ (q.ageMin # <<>> /\ q.ageMax # <<>>)
          => (ExpectedInt(q.ageMin) <= r.age /\ r.age <= ExpectedInt(q.ageMax))
    /\ (q.gpaMin # <<>> /\ q.gpaMax # <<>>)
          => (ExpectedGpa(q.gpaMin) <= r.gpa /\ r.gpa <= ExpectedGpa(q.gpaMax))
    /\ (q.organizations # <<>>) => r.org \in ExpectedOrgs(q.organizations)

C8_Step(p) ==
    (CanStart(p) /\ Moved(p) /\ req'[p].op = "filter") =>
        /\ req'[p].pc = "done" /\ req'[p].status = 200
        /\ req'[p].result = {r \in table : C8_Satisfies(req'[p].query, r)}
        /\ table' = table

\* C8: the filter returns exactly the rows that satisfy every criterion that
\* is present: the inclusive age range when both age bounds are non-empty,
\* the inclusive gpa range when both gpa bounds are non-empty, membership of
\* the organization among the comma-separated names when the list is
\* non-empty; a bound that is no number counts as 0; the table is unchanged.
C8_FilterConjunction == [][\A p \in Procs : C8_Step(p)]_vars

\* A filter with all three criteria returned some rows of the table and not
\* others.
C8_Witness ==
    \E p \in Procs :
        /\ req[p].op = "filter" /\ req[p].pc = "done"
        /\ req[p].query.ageMin # <<>> /\ req[p].query.gpaMin # <<>>
        /\ req[p].query.organizations # <<>>
        /\ req[p].result # {} /\ req[p].result # table

C9_Step(p) ==
    /\ (req[p].pc = "ins_exec" /\ req'[p].status = 201) => req[p].newID > assigned
    /\ (req[p].pc = "bulk_exec" /\ req'[p].status = 201)
          => \A r \in pending[p] : r.id > assigned

\* C9: over a sequential history every id given to a newly created student is
\* greater than every id given to a student created earlier.
C9_MonotonicIds == [][\A p \in Procs : C9_Step(p)]_vars

\* C10: an update responds 200 only if its UPDATE statement found the row
\* with the requested id.
C10_UpdateOkOnlyIfRowPresent ==
    \A p \in Procs :
        (req[p].op = "update" /\ req[p].pc = "done" /\ req[p].status = 200)
            => req[p].rowsAffected >= 1

====
